---------------------------- MODULE Spec2Model ----------------------------
(***************************************************************************)
(* lockfree_queues::SPBroadcastQueue<T, MAX_READERS>, the bounded          *)
(* single-producer broadcast ring of include/lockfree_queues/              *)
(* sp_broadcast_queue.h, with one producer thread and several consumer     *)
(* threads as its clients.                                                 *)
(*                                                                         *)
(* Granularity: one action per access to memory that another thread can    *)
(* touch (an atomic load, store or exchange, or a slot of the ring).  A    *)
(* thread's private computation is folded into the shared access that      *)
(* follows it.  Atomics are sequentially consistent in the model.          *)
(*                                                                         *)
(* size_t: TLC's integers have 32 bits, so the all-ones value              *)
(* numeric_limits<size_t>::max() is SIZE_MAX = 2^31 - 1 here, and UAdd and *)
(* USub wrap around at SIZE_MAX + 1 as unsigned arithmetic does.           *)
(*                                                                         *)
(* T: the element emplaced at position i carries the value i, as the       *)
(* tests' q.emplace(i) does.  T is not trivially destructible (the tests'  *)
(* SPBQTestType); `constructed` is that type's set of live objects.        *)
(***************************************************************************)
EXTENDS Integers, Sequences, FiniteSets, TLC

\* ------------------------------------------------------------- constants

\* numeric_limits<size_t>::max(), the sentinel (scaled to TLC's integers)
SIZE_MAX == 2147483647

\* template parameter MAX_READERS of the instantiation under test
MAX_READERS == 2

\* the floor of the capacity in the constructor
MIN_CAPACITY == 16

\* default argument reader_batch_size of the constructor
DEFAULT_READER_BATCH_SIZE == 4

\* the capacity the over_subscribe test asks for
REQUESTED_CAPACITY == 10

\* -------------------------------------------------------------- bounds

\* items the producer emplaces: one lap of the ring and the wrap into slot 0
MaxWrite == 17

\* items the producer emplaces in the runs that exercise the reader registry
RegistryMaxWrite == 2

\* subscriptions one consumer thread makes in those runs
MaxSubs == 2

\* items the late subscriber reads
MaxLateReads == 2

\* items the producer emplaces in the runs over the reader batch sizes
MaxBatchWrite == 18

\* the largest reader_batch_size those runs construct the queue with
MaxReaderBatchSize == 16

\* the largest capacity the runs over the capacities ask the constructor for
MaxRequested == 33

\* ------------------------------------------------------------- threads

AllThreads == {1, 2, 3}

ReaderIds == 0 .. (MAX_READERS - 1)

NULL == -1

\* ----------------------------------------------------- size_t arithmetic

\* an addition that keeps the index inside the smallest ring
UAddMasked(a, b) == (a + b) % MIN_CAPACITY

UAdd(a, b) == IF a > SIZE_MAX - b THEN (a - (SIZE_MAX - b)) - 1 ELSE a + b

USub(a, b) == IF a >= b THEN a - b ELSE ((a - b) + SIZE_MAX) + 1

UMin(a, b) == IF b < a THEN b ELSE a

RECURSIVE BitAnd(_, _)
BitAnd(x, y) ==
    IF x = 0 \/ y = 0 THEN 0
    ELSE (x % 2) * (y % 2) + 2 * BitAnd(x \div 2, y \div 2)

\* ------------------------------------------------------------ utilities

RECURSIVE NextPowerLoop(_, _)
NextPowerLoop(power, v) ==
    IF power < v THEN NextPowerLoop(power * 2, v) ELSE power

\* a loop that goes on while power <= v
next_power_of_two_above(v) == NextPowerLoop(1, v + 1)

next_power_of_two(v) == NextPowerLoop(1, v)

is_power_of_two(n) == (n # 0) /\ (BitAnd(n, USub(n, 1)) = 0)

\* ---------------------------------------------------------- the state

VARIABLES
    q_state,                     \* "live" | "invalid" (constructor threw) | "destroyed"
    requested_capacity,          \* the constructor's argument capacity
    capacity,                    \* _capacity
    capacity_minus_one,          \* _capacity_minus_one
    items_per_batch_minus_one,   \* _items_per_batch_minus_one
    slots,                       \* _slots: slot -> value of the object in it, NULL if none yet
    constructed,                 \* SPBQTestType::constructed: the slots holding a live object
    ctor_calls,                  \* constructor calls of T so far
    dtor_calls,                  \* destructor calls of T so far
    subscribe_lock,              \* _subscribe_lock
    write_idx,                   \* _write_idx
    min_read_idx_cache,          \* _min_read_idx_cache
    read_idx,                    \* _read_idx[i]
    reader_cache,                \* _reader_cache[i]: read_local_idx, write_idx_cache
    p_pc,                        \* producer: where it is in try_emplace
    p_write_idx,                 \* try_emplace's local write_idx
    p_i,                         \* try_emplace's loop variable i
    p_result,                    \* what the last try_emplace returned ("none" before the first)
    c_pc,                        \* consumer thread: where it is ("thrown": subscribe threw)
    c_index,                     \* subscribe's local index; then the thread's rid
    c_write_idx,                 \* subscribe's local write_idx
    c_item,                      \* the slot front returned last, NULL for nullptr
    c_subs,                      \* subscriptions the thread has made
    consumed,                    \* the values the thread read in its current subscription
    h_max_write,                 \* the run: items the producer emplaces
    h_max_subs,                  \* the run: subscriptions one consumer thread makes
    h_consumers                  \* the run: the consumer threads

vars == << q_state, requested_capacity, capacity, capacity_minus_one, items_per_batch_minus_one, slots,
           constructed, ctor_calls, dtor_calls, subscribe_lock, write_idx,
           min_read_idx_cache, read_idx, reader_cache, p_pc, p_write_idx, p_i,
           p_result, c_pc, c_index, c_write_idx, c_item, c_subs, consumed,
           h_max_write, h_max_subs, h_consumers >>

config_vars == << requested_capacity, capacity, capacity_minus_one, items_per_batch_minus_one,
                  h_max_write, h_max_subs, h_consumers >>

slot_vars == << slots, constructed, ctor_calls, dtor_calls >>

producer_vars == << p_pc, p_write_idx, p_i, p_result >>

consumer_vars == << c_pc, c_index, c_write_idx, c_item, c_subs, consumed >>

\* ReaderCache::set and ReaderCache::reset
ReaderCacheSet(v) == [read_local_idx |-> v, write_idx_cache |-> v]

ReaderCacheReset == ReaderCacheSet(SIZE_MAX)

\* ----------------------------------------------------- the constructor

\* the member initialisers
CtorCapacity(requested) ==
    IF next_power_of_two(requested) > MIN_CAPACITY
    THEN next_power_of_two(requested) ELSE MIN_CAPACITY

\* a batch computed from twice the capacity
CtorItemsPerBatchDoubled(requested, reader_batch_size) ==
    USub((2 * CtorCapacity(requested)) \div reader_batch_size, 1)

CtorItemsPerBatchMinusOne(requested, reader_batch_size) ==
    USub(CtorCapacity(requested) \div reader_batch_size, 1)

\* the constructor does not throw
CtorAccepts(requested, reader_batch_size) ==
    is_power_of_two(UAdd(CtorItemsPerBatchMinusOne(requested, reader_batch_size), 1))

Constructor(requested, reader_batch_size) ==
    /\ q_state = (IF CtorAccepts(requested, reader_batch_size) THEN "live" ELSE "invalid")
    /\ requested_capacity = requested
    /\ capacity = CtorCapacity(requested)
    /\ capacity_minus_one = CtorCapacity(requested) - 1
    /\ items_per_batch_minus_one = CtorItemsPerBatchMinusOne(requested, reader_batch_size)
    /\ slots = [k \in 0 .. (CtorCapacity(requested) - 1) |-> NULL]
    /\ constructed = {}
    /\ ctor_calls = 0
    /\ dtor_calls = 0
    /\ subscribe_lock = FALSE
    /\ write_idx = 0
    /\ min_read_idx_cache = SIZE_MAX
    /\ read_idx = [i \in ReaderIds |-> SIZE_MAX]
    /\ reader_cache = [i \in ReaderIds |-> ReaderCacheReset]

ClientsStart ==
    /\ p_pc = "idle"
    /\ p_write_idx = 0
    /\ p_i = 0
    /\ p_result = "none"
    /\ c_pc = [t \in AllThreads |-> "start"]
    /\ c_index = [t \in AllThreads |-> NULL]
    /\ c_write_idx = [t \in AllThreads |-> 0]
    /\ c_item = [t \in AllThreads |-> NULL]
    /\ c_subs = [t \in AllThreads |-> 0]
    /\ consumed = [t \in AllThreads |-> << >>]

\* the run of the clients: how much the producer emplaces, how often a consumer
\* thread subscribes, which consumer threads there are
Run(max_write, max_subs, consumers) ==
    /\ h_max_write = max_write
    /\ h_max_subs = max_subs
    /\ h_consumers = consumers

Init ==
    /\ Constructor(REQUESTED_CAPACITY, DEFAULT_READER_BATCH_SIZE)
    /\ ClientsStart
    /\ Run(MaxWrite, 1, {1, 2})

\* ---------------------------------------------------------- try_emplace

\* a full test that lets the producer run one slot too far
IsFullOffByOne(w, min_read) ==
    (min_read = SIZE_MAX) \/ (USub(w, min_read) = capacity + 1)

\* a full test without the sentinel guard
IsFullNoSentinel(w, min_read) == USub(w, min_read) = capacity

\* the test both ifs of try_emplace make
IsFull(w, min_read) == (min_read = SIZE_MAX) \/ (USub(w, min_read) = capacity)

\* the producer calls try_emplace: it loads _write_idx and, when its cache says
\* full, _read_idx[0]
TryEmplaceBegin ==
    /\ q_state = "live"
    /\ p_pc = "idle"
    /\ write_idx < h_max_write
    /\ p_write_idx' = write_idx
    /\ IF IsFull(write_idx, min_read_idx_cache)
       THEN /\ min_read_idx_cache' = read_idx[0]
            /\ IF MAX_READERS > 1
               THEN /\ p_pc' = "scan"
                    /\ p_i' = 1
                    /\ p_result' = p_result
               ELSE /\ p_i' = p_i
                    /\ IF IsFull(write_idx, read_idx[0])
                       THEN p_pc' = "idle" /\ p_result' = "false"
                       ELSE p_pc' = "construct" /\ p_result' = p_result
       ELSE /\ p_pc' = "construct"
            /\ UNCHANGED << min_read_idx_cache, p_i, p_result >>
    /\ UNCHANGED << q_state, config_vars, slot_vars, subscribe_lock, write_idx,
                    read_idx, reader_cache, consumer_vars >>

\* a scan that reserves the slot before the second test
TryEmplaceScanReserving ==
    /\ p_pc = "scan"
    /\ min_read_idx_cache' = UMin(min_read_idx_cache, read_idx[p_i])
    /\ IF p_i + 1 < MAX_READERS
       THEN /\ p_i' = p_i + 1
            /\ UNCHANGED << p_pc, p_result, write_idx >>
       ELSE /\ p_i' = p_i
            /\ IF IsFull(p_write_idx, min_read_idx_cache')
               THEN /\ p_pc' = "idle" /\ p_result' = "false"
                    /\ write_idx' = UAdd(p_write_idx, 1)
               ELSE /\ p_pc' = "construct" /\ p_result' = p_result
                    /\ write_idx' = write_idx
    /\ UNCHANGED << q_state, config_vars, slot_vars, subscribe_lock,
                    read_idx, reader_cache, p_write_idx, consumer_vars >>

\* one turn of the loop over _read_idx[1..]; after the last, the second test
TryEmplaceScan ==
    /\ p_pc = "scan"
    /\ min_read_idx_cache' = UMin(min_read_idx_cache, read_idx[p_i])
    /\ IF p_i + 1 < MAX_READERS
       THEN /\ p_i' = p_i + 1
            /\ UNCHANGED << p_pc, p_result >>
       ELSE /\ p_i' = p_i
            /\ IF IsFull(p_write_idx, min_read_idx_cache')
               THEN p_pc' = "idle" /\ p_result' = "false"
               ELSE p_pc' = "construct" /\ p_result' = p_result
    /\ UNCHANGED << q_state, config_vars, slot_vars, subscribe_lock, write_idx,
                    read_idx, reader_cache, p_write_idx, consumer_vars >>

\* the slot try_emplace writes
ProducerSlot == BitAnd(p_write_idx, capacity_minus_one)

\* a destructor call that waits one item too long
DestroysFirstLate == write_idx > capacity

\* whether try_emplace destroys the slot's object first
DestroysFirst == write_idx >= capacity

\* the destructor call, when the ring has wrapped, and the placement new
TryEmplaceConstruct ==
    /\ p_pc = "construct"
    /\ slots' = [slots EXCEPT ![ProducerSlot] = p_write_idx]
    /\ constructed' = constructed \cup {ProducerSlot}
    /\ ctor_calls' = ctor_calls + 1
    /\ dtor_calls' = IF DestroysFirst THEN dtor_calls + 1 ELSE dtor_calls
    /\ p_pc' = "store"
    /\ UNCHANGED << q_state, config_vars, subscribe_lock, write_idx, min_read_idx_cache,
                    read_idx, reader_cache, p_write_idx, p_i, p_result, consumer_vars >>

\* the release store of _write_idx, and return true
TryEmplaceStore ==
    /\ p_pc = "store"
    /\ write_idx' = UAdd(p_write_idx, 1)
    /\ p_pc' = "idle"
    /\ p_result' = "true"
    /\ UNCHANGED << q_state, config_vars, slot_vars, subscribe_lock, min_read_idx_cache,
                    read_idx, reader_cache, p_write_idx, p_i, consumer_vars >>

\* ---------------------------------------------------------- front, pop

\* a front that never reloads _write_idx
FrontCacheStale(rc, w) == rc

\* front's result for a reader cache once write_idx is loaded: the refreshed
\* cache and the slot, NULL for nullptr
FrontCache(rc, w) ==
    IF rc.read_local_idx = rc.write_idx_cache
    THEN [rc EXCEPT !.write_idx_cache = w]
    ELSE rc

\* a front that returns the newest item
FrontItemBack(rc, w) ==
    IF rc.read_local_idx = w THEN NULL ELSE BitAnd(USub(w, 1), capacity_minus_one)

\* a front without the empty test
FrontItemNoCheck(rc, w) == BitAnd(rc.read_local_idx, capacity_minus_one)

FrontItem(rc, w) ==
    IF FrontCache(rc, w).read_local_idx = FrontCache(rc, w).write_idx_cache
    THEN NULL
    ELSE BitAnd(rc.read_local_idx, capacity_minus_one)

\* front, called by a reader that holds no pointer or calls it again
Front(t) ==
    /\ c_pc[t] \in {"ready", "holding"}
    /\ reader_cache' = [reader_cache EXCEPT
                          ![c_index[t]] = FrontCache(reader_cache[c_index[t]], write_idx)]
    /\ c_item' = [c_item EXCEPT ![t] = FrontItem(reader_cache[c_index[t]], write_idx)]
    /\ c_pc' = [c_pc EXCEPT ![t] = IF c_item'[t] = NULL THEN "ready" ELSE "holding"]
    /\ UNCHANGED << q_state, config_vars, slot_vars, subscribe_lock, write_idx,
                    min_read_idx_cache, read_idx, producer_vars, c_index, c_write_idx,
                    c_subs, consumed >>

\* a pop that publishes one item early
PopPublishesEarly(local) == BitAnd(local + 1, items_per_batch_minus_one) = 0

\* a pop that never publishes
PopPublishesNever(local) == FALSE

\* whether pop publishes the incremented index
PopPublishes(local) == BitAnd(local, items_per_batch_minus_one) = 0

\* the consumer reads the item front gave it, then pops
Pop(t) ==
    /\ c_pc[t] = "holding"
    /\ consumed' = [consumed EXCEPT ![t] = Append(@, slots[c_item[t]])]
    /\ reader_cache' = [reader_cache EXCEPT
                          ![c_index[t]].read_local_idx = UAdd(@, 1)]
    /\ read_idx' = IF PopPublishes(reader_cache'[c_index[t]].read_local_idx)
                   THEN [read_idx EXCEPT ![c_index[t]] =
                                            reader_cache'[c_index[t]].read_local_idx]
                   ELSE read_idx
    /\ c_item' = [c_item EXCEPT ![t] = NULL]
    /\ c_pc' = [c_pc EXCEPT ![t] = "ready"]
    /\ UNCHANGED << q_state, config_vars, slot_vars, subscribe_lock, write_idx,
                    min_read_idx_cache, producer_vars, c_index, c_write_idx, c_subs >>

\* ------------------------------------------------ subscribe, unsubscribe

FreeIds == {i \in ReaderIds : read_idx[i] = SIZE_MAX}

\* a find_if that takes the first reader slot, free or not
FirstSlot == CHOOSE i \in ReaderIds : \A j \in ReaderIds : i <= j

\* std::find_if: the first free reader slot
FirstFree == CHOOSE i \in FreeIds : \A j \in FreeIds : i <= j

\* a subscribe that does not wait for the lock
SubscribeNoLock(t) ==
    /\ q_state = "live"
    /\ c_pc[t] \in {"start", "thrown"}
    /\ c_subs[t] < h_max_subs
    /\ subscribe_lock' = TRUE
    /\ c_pc' = [c_pc EXCEPT ![t] = "sub_find"]
    /\ UNCHANGED << q_state, config_vars, slot_vars, write_idx, min_read_idx_cache,
                    read_idx, reader_cache, producer_vars, c_index, c_write_idx, c_item,
                    c_subs, consumed >>

\* the exchange(true) that returns false
SubscribeLock(t) ==
    /\ q_state = "live"
    /\ c_pc[t] \in {"start", "thrown"}
    /\ c_subs[t] < h_max_subs
    /\ subscribe_lock = FALSE
    /\ subscribe_lock' = TRUE
    /\ c_pc' = [c_pc EXCEPT ![t] = "sub_find"]
    /\ UNCHANGED << q_state, config_vars, slot_vars, write_idx, min_read_idx_cache,
                    read_idx, reader_cache, producer_vars, c_index, c_write_idx, c_item,
                    c_subs, consumed >>

SubscribeFind(t) ==
    /\ c_pc[t] = "sub_find"
    /\ FreeIds # {}
    /\ c_index' = [c_index EXCEPT ![t] = FirstFree]
    /\ c_pc' = [c_pc EXCEPT ![t] = "sub_load"]
    /\ UNCHANGED << q_state, config_vars, slot_vars, subscribe_lock, write_idx,
                    min_read_idx_cache, read_idx, reader_cache, producer_vars,
                    c_write_idx, c_item, c_subs, consumed >>

SubscribeThrow(t) ==
    /\ c_pc[t] = "sub_find"
    /\ FreeIds = {}
    /\ subscribe_lock' = FALSE
    /\ c_pc' = [c_pc EXCEPT ![t] = "thrown"]
    /\ UNCHANGED << q_state, config_vars, slot_vars, write_idx, min_read_idx_cache,
                    read_idx, reader_cache, producer_vars, c_index, c_write_idx, c_item,
                    c_subs, consumed >>

SubscribeLoad(t) ==
    /\ c_pc[t] = "sub_load"
    /\ c_write_idx' = [c_write_idx EXCEPT ![t] = write_idx]
    /\ c_pc' = [c_pc EXCEPT ![t] = "sub_cache"]
    /\ UNCHANGED << q_state, config_vars, slot_vars, subscribe_lock, write_idx,
                    min_read_idx_cache, read_idx, reader_cache, producer_vars, c_index,
                    c_item, c_subs, consumed >>

\* a start at the position of the next item
LastWriteIdxFuture(w) == w

\* subscribe's last_write_idx
LastWriteIdx(w) == IF w = 0 THEN 0 ELSE w - 1

SubscribeSetCache(t) ==
    /\ c_pc[t] = "sub_cache"
    /\ reader_cache' = [reader_cache EXCEPT
                          ![c_index[t]] = ReaderCacheSet(LastWriteIdx(c_write_idx[t]))]
    /\ c_pc' = [c_pc EXCEPT ![t] = "sub_store"]
    /\ UNCHANGED << q_state, config_vars, slot_vars, subscribe_lock, write_idx,
                    min_read_idx_cache, read_idx, producer_vars, c_index, c_write_idx,
                    c_item, c_subs, consumed >>

SubscribeStore(t) ==
    /\ c_pc[t] = "sub_store"
    /\ read_idx' = [read_idx EXCEPT ![c_index[t]] = LastWriteIdx(c_write_idx[t])]
    /\ c_pc' = [c_pc EXCEPT ![t] = "sub_unlock"]
    /\ UNCHANGED << q_state, config_vars, slot_vars, subscribe_lock, write_idx,
                    min_read_idx_cache, reader_cache, producer_vars, c_index, c_write_idx,
                    c_item, c_subs, consumed >>

SubscribeReturn(t) ==
    /\ c_pc[t] = "sub_unlock"
    /\ subscribe_lock' = FALSE
    /\ c_pc' = [c_pc EXCEPT ![t] = "ready"]
    /\ c_subs' = [c_subs EXCEPT ![t] = @ + 1]
    /\ consumed' = [consumed EXCEPT ![t] = << >>]
    /\ UNCHANGED << q_state, config_vars, slot_vars, write_idx, min_read_idx_cache,
                    read_idx, reader_cache, producer_vars, c_index, c_write_idx, c_item >>

UnsubscribeLock(t) ==
    /\ c_pc[t] = "ready"
    /\ subscribe_lock = FALSE
    /\ subscribe_lock' = TRUE
    /\ c_pc' = [c_pc EXCEPT ![t] = "unsub_reset"]
    /\ UNCHANGED << q_state, config_vars, slot_vars, write_idx, min_read_idx_cache,
                    read_idx, reader_cache, producer_vars, c_index, c_write_idx, c_item,
                    c_subs, consumed >>

UnsubscribeReset(t) ==
    /\ c_pc[t] = "unsub_reset"
    /\ reader_cache' = [reader_cache EXCEPT ![c_index[t]] = ReaderCacheReset]
    /\ c_pc' = [c_pc EXCEPT ![t] = "unsub_store"]
    /\ UNCHANGED << q_state, config_vars, slot_vars, subscribe_lock, write_idx,
                    min_read_idx_cache, read_idx, producer_vars, c_index, c_write_idx,
                    c_item, c_subs, consumed >>

UnsubscribeStore(t) ==
    /\ c_pc[t] = "unsub_store"
    /\ read_idx' = [read_idx EXCEPT ![c_index[t]] = SIZE_MAX]
    /\ c_pc' = [c_pc EXCEPT ![t] = "unsub_unlock"]
    /\ UNCHANGED << q_state, config_vars, slot_vars, subscribe_lock, write_idx,
                    min_read_idx_cache, reader_cache, producer_vars, c_index, c_write_idx,
                    c_item, c_subs, consumed >>

UnsubscribeReturn(t) ==
    /\ c_pc[t] = "unsub_unlock"
    /\ subscribe_lock' = FALSE
    /\ c_pc' = [c_pc EXCEPT ![t] = "start"]
    /\ UNCHANGED << q_state, config_vars, slot_vars, write_idx, min_read_idx_cache,
                    read_idx, reader_cache, producer_vars, c_index, c_write_idx, c_item,
                    c_subs, consumed >>

\* ------------------------------------------------------- the destructor

\* the slots ~SPBroadcastQueue destroys
DestructorSlots == 0 .. ((IF write_idx >= capacity THEN capacity ELSE write_idx) - 1)

\* run by the producer, with no call in progress
Destructor ==
    /\ q_state = "live"
    /\ p_pc = "idle"
    /\ q_state' = "destroyed"
    /\ constructed' = constructed \ DestructorSlots
    /\ dtor_calls' = dtor_calls + Cardinality(DestructorSlots)
    /\ UNCHANGED << config_vars, slots, ctor_calls, subscribe_lock, write_idx,
                    min_read_idx_cache, read_idx, reader_cache, producer_vars,
                    consumer_vars >>

\* ------------------------------------------------------------ the clients

Producer ==
    \/ TryEmplaceBegin
    \/ TryEmplaceScan
    \/ TryEmplaceConstruct
    \/ TryEmplaceStore

Subscribe(t) ==
    \/ SubscribeLock(t)
    \/ SubscribeFind(t)
    \/ SubscribeThrow(t)
    \/ SubscribeLoad(t)
    \/ SubscribeSetCache(t)
    \/ SubscribeStore(t)
    \/ SubscribeReturn(t)

Unsubscribe(t) ==
    \/ UnsubscribeLock(t)
    \/ UnsubscribeReset(t)
    \/ UnsubscribeStore(t)
    \/ UnsubscribeReturn(t)

Consume(t) ==
    \/ Front(t)
    \/ Pop(t)

\* the thread holds a reader id: subscribe() has returned, unsubscribe() not begun
Subscribed(t) == c_pc[t] \in {"ready", "holding"}

\* the thread is inside subscribe() or unsubscribe()
InCall(t) == c_pc[t] \notin {"start", "thrown", "ready", "holding"}

\* no call on the queue is in progress
Quiescent == (p_pc = "idle") /\ (\A t \in AllThreads : ~InCall(t))

\* ------------------------------------------------------ specifications

\* Spec: one client thread at a time (the tests basic_produce_full_queue,
\* basic_produce_partial_queue): every call runs to its end before the next
\* begins.  Readers 1 and 2 subscribe before the first item, unsubscribe when
\* they like; the queue is destroyed when the client likes.
SeqProducer ==
    /\ \A t \in AllThreads : ~InCall(t)
    /\ Producer

SeqReader(t) ==
    /\ p_pc = "idle"
    /\ q_state = "live"
    /\ \A u \in AllThreads \ {t} : ~InCall(u)
    /\ \/ (write_idx = 0 /\ Subscribe(t))
       \/ Consume(t)
       \/ Unsubscribe(t)

SeqDestructor ==
    /\ Quiescent
    /\ Destructor

Next ==
    \/ SeqProducer
    \/ \E t \in h_consumers : SeqReader(t)
    \/ SeqDestructor

Spec == Init /\ [][Next]_vars

\* SpecBroadcast: the test single_produce_multiple_consumers.  K consumer
\* threads subscribe, the producer starts once every one of them has (the
\* test's flags), each consumer reads every item and then unsubscribes.
InitBroadcast ==
    /\ Constructor(REQUESTED_CAPACITY, DEFAULT_READER_BATCH_SIZE)
    /\ ClientsStart
    /\ \E k \in 1 .. MAX_READERS : Run(MaxWrite, 1, 1 .. k)

BroadcastStarted == \A t \in h_consumers : c_subs[t] >= 1

BroadcastProducer ==
    /\ BroadcastStarted
    /\ Producer

BroadcastConsumer(t) ==
    \/ Subscribe(t)
    \/ Consume(t)
    \/ (Len(consumed[t]) = h_max_write /\ Unsubscribe(t))

NextBroadcast ==
    \/ BroadcastProducer
    \/ \E t \in h_consumers : BroadcastConsumer(t)

SpecBroadcast == InitBroadcast /\ [][NextBroadcast]_vars

\* SpecLate: the test single_produce_multiple_consumers_subscribe.  The producer
\* runs from the start; consumer 1 subscribes first and reads every item,
\* consumer 2 subscribes whenever it likes after that and reads a few items; a
\* consumer unsubscribes once it has read the last item.
InitLate ==
    /\ Constructor(REQUESTED_CAPACITY, DEFAULT_READER_BATCH_SIZE)
    /\ ClientsStart
    /\ Run(MaxWrite, 1, {1, 2})

\* the test's `item->x == iter - 1`
SawLastItem(t) ==
    /\ consumed[t] # << >>
    /\ consumed[t][Len(consumed[t])] = h_max_write - 1

LateReads(t) == IF t = 1 THEN h_max_write ELSE MaxLateReads

LateConsumer(t) ==
    \/ ((t = 1 \/ c_subs[1] >= 1) /\ Subscribe(t))
    \/ (~SawLastItem(t) /\ Len(consumed[t]) < LateReads(t) /\ Consume(t))
    \/ (SawLastItem(t) /\ Unsubscribe(t))

NextLate ==
    \/ Producer
    \/ \E t \in h_consumers : LateConsumer(t)

SpecLate == InitLate /\ [][NextLate]_vars

\* SpecRegistry: the test over_subscribe with its calls on threads of their own.
\* Three consumer threads compete for the MAX_READERS reader slots, subscribing
\* and unsubscribing when they like, beside a producer of a few items.
InitRegistry ==
    /\ Constructor(REQUESTED_CAPACITY, DEFAULT_READER_BATCH_SIZE)
    /\ ClientsStart
    /\ Run(RegistryMaxWrite, MaxSubs, AllThreads)

RegistryConsumer(t) ==
    \/ Subscribe(t)
    \/ Consume(t)
    \/ Unsubscribe(t)

NextRegistry ==
    \/ Producer
    \/ \E t \in h_consumers : RegistryConsumer(t)

SpecRegistry == InitRegistry /\ [][NextRegistry]_vars

\* SpecBatch: the consumer loop of single_produce_single_consumers on a queue
\* built with any reader_batch_size (the constructor throws for the sizes that
\* give no power of two).  The producer spins in emplace; one consumer thread
\* subscribes, polls front and pops, and may unsubscribe once and subscribe
\* again, which starts it at an index that need not be a multiple of the batch.
\* Both threads keep running.
InitBatch ==
    /\ \E reader_batch_size \in 1 .. MaxReaderBatchSize :
          Constructor(REQUESTED_CAPACITY, reader_batch_size)
    /\ ClientsStart
    /\ Run(MaxBatchWrite, 2, {1})

BatchConsumer(t) ==
    \/ Subscribe(t)
    \/ Consume(t)
    \/ (c_subs[t] < h_max_subs /\ Unsubscribe(t))

NextBatch ==
    \/ Producer
    \/ \E t \in h_consumers : BatchConsumer(t)

SpecBatch ==
    /\ InitBatch
    /\ [][NextBatch]_vars
    /\ WF_vars(Producer)
    /\ WF_vars(BatchConsumer(1))

\* SpecCapacity: the test basic_produce_full_queue on a queue of any requested
\* capacity.  One client thread: it subscribes a reader, which looks at the
\* front and never pops, and calls try_emplace until the ring refuses.
InitCapacity ==
    /\ \E requested \in 0 .. MaxRequested :
          /\ Constructor(requested, DEFAULT_READER_BATCH_SIZE)
          /\ Run(CtorCapacity(requested) + 1, 1, {1})
    /\ ClientsStart

CapacityProducer ==
    /\ \A t \in h_consumers : Subscribed(t)
    /\ Producer

CapacityReader(t) ==
    /\ p_pc = "idle"
    /\ \/ Subscribe(t)
       \/ Front(t)

NextCapacity ==
    \/ CapacityProducer
    \/ \E t \in h_consumers : CapacityReader(t)

SpecCapacity == InitCapacity /\ [][NextCapacity]_vars

\* ---------------------------------------------------------------- claims

\* the sequence the producer has emplaced: position i holds the value i
Emplaced == [i \in 1 .. write_idx |-> i - 1]

IsPrefix(s, t) == (Len(s) <= Len(t)) /\ (\A i \in 1 .. Len(s) : s[i] = t[i])

\* the reader slots a subscribe() has published an index in
SubscribedIds == {i \in ReaderIds : read_idx[i] # SIZE_MAX}

\* C1 (SpecBroadcast): with every reader subscribed before the first emplace,
\* what each reader has read is a prefix of what the producer emplaced, from
\* position 0 on, nothing skipped, repeated or reordered; so two readers that
\* read N items read the same N items.
C1_BroadcastOrder ==
    /\ \A t \in h_consumers : IsPrefix(consumed[t], Emplaced)
    /\ \A t, u \in h_consumers :
          Len(consumed[t]) = Len(consumed[u]) => consumed[t] = consumed[u]

\* two readers have each read every item of a run that wrapped the ring
C1_Witness ==
    /\ h_consumers = {1, 2}
    /\ write_idx > capacity
    /\ \A t \in h_consumers : Len(consumed[t]) = write_idx

LocalReadIdx(t) == reader_cache[c_index[t]].read_local_idx

\* C2 (SpecLate): write_idx minus the least published read_idx of the
\* subscribed readers is at most capacity, in every reachable state.
C2_Backpressure ==
    \A i \in SubscribedIds : USub(write_idx, read_idx[i]) <= capacity

\* C3 (SpecLate): while a reader holds the pointer front gave it, and until its
\* pop, the producer neither destroys nor constructs the object in that slot.
C3_NoOverwriteUnderReader ==
    [][\A t \in h_consumers :
          (c_pc[t] = "holding" /\ c_pc'[t] = "holding")
              => slots'[c_item[t]] = slots[c_item[t]]]_vars

\* C7 (SpecLate): a reader that subscribes while the producer runs reads, from
\* its starting position p on, the values emplaced at p, p+1, p+2, ...: the
\* k-th value it reads is the one emplaced at position p+k-1.
C7_LateSubscriberIntegrity ==
    \A t \in h_consumers : \A k \in 1 .. Len(consumed[t]) :
        consumed[t][k] = (IF c_write_idx[t] = 0 THEN 0 ELSE c_write_idx[t] - 1) + (k - 1)

C10_FrontResult ==
    \A t \in h_consumers : Subscribed(t) =>
        FrontItem(reader_cache[c_index[t]], write_idx) =
            (IF LocalReadIdx(t) = write_idx THEN NULL ELSE LocalReadIdx(t) % capacity)

\* a reader that has read as many items as were emplaced since its start, on a
\* cache that is stale, gets nullptr
C10_Witness ==
    /\ c_pc[2] = "ready"
    /\ Len(consumed[2]) = 2
    /\ c_write_idx[2] = 1
    /\ write_idx = 2
    /\ c_item[2] = NULL
    /\ FrontItem(reader_cache[c_index[2]], write_idx) = NULL

\* the least index a subscribed reader has published
MinPublished ==
    CHOOSE m \in {read_idx[i] : i \in SubscribedIds} :
        \A i \in SubscribedIds : m <= read_idx[i]

\* C4 (SpecLate): with a reader subscribed, a try_emplace that returns true does
\* so in a state where write_idx minus the least published read_idx is not the
\* capacity: in the state where it is, try_emplace returns false.  (This is the
\* half of the claim that a pop during the call cannot disturb.)
C4_TrueOnlyWhenNotFull ==
    [][(p_pc = "store" /\ p_pc' = "idle" /\ SubscribedIds # {})
          => USub(write_idx, MinPublished) # capacity]_vars

\* no reader slot holds a published index
NoReader == SubscribedIds = {}

\* C5 as stated (Spec): in a state where every read_idx[i] is the sentinel,
\* write_idx is not advanced.
C5_Original ==
    [][NoReader => write_idx' = write_idx]_vars

\* C5 as amended (Spec): with every read_idx[i] at the sentinel, try_emplace
\* decides from min_read_idx_cache.  It goes on to construct exactly if the cache
\* is not the sentinel and write_idx - cache is not the capacity, and then
\* advances write_idx by one; it returns false, write_idx untouched and the cache
\* back at the sentinel, once the cache is the sentinel or write_idx - cache has
\* reached the capacity.  So the items emplaced with no reader never pass
\* cache + capacity.
C5_StopsAtStaleCache ==
    [][NoReader =>
          /\ (p_pc = "idle" /\ p_pc' = "construct")
                => /\ min_read_idx_cache # SIZE_MAX
                   /\ USub(write_idx, min_read_idx_cache) < capacity
          /\ (p_pc = "idle" /\ p_pc' = "scan")
                => \/ min_read_idx_cache = SIZE_MAX
                   \/ USub(write_idx, min_read_idx_cache) = capacity
          /\ (p_pc = "scan" /\ p_pc' = "construct") => FALSE
          /\ (p_pc = "scan" /\ p_pc' = "idle")
                => /\ p_result' = "false"
                   /\ write_idx' = write_idx
                   /\ min_read_idx_cache' = SIZE_MAX
          /\ (p_pc = "store" /\ p_pc' = "idle")
                => /\ p_result' = "true"
                   /\ write_idx' = write_idx + 1
                   /\ USub(write_idx', min_read_idx_cache) <= capacity]_vars

\* the producer stores the sixteenth item of a run whose only reader
\* unsubscribed before the first
C5_Witness ==
    /\ NoReader
    /\ c_subs[1] = 1
    /\ p_pc = "store"
    /\ p_write_idx = capacity - 1
    /\ min_read_idx_cache = 0

\* C8 (SpecRegistry): subscribe() throws MaxConsumersReached exactly if every
\* reader slot holds a published index when it looks; the throw leaves every
\* read_idx, every reader cache and write_idx as they were and the lock
\* released; a subscribe() that does not throw takes a slot that was free and
\* that no other subscribed thread owns; and unsubscribe leaves its slot free
\* and the lock released, so the next subscribe() finds a slot.
C8_SubscribeFailsExactlyWhenFull ==
    [][\A t \in h_consumers :
          /\ (c_pc[t] = "sub_find" /\ c_pc'[t] = "thrown")
                => /\ SubscribedIds = ReaderIds
                   /\ read_idx' = read_idx
                   /\ reader_cache' = reader_cache
                   /\ write_idx' = write_idx
                   /\ subscribe_lock' = FALSE
          /\ (c_pc[t] = "sub_find" /\ c_pc'[t] = "sub_load")
                => /\ SubscribedIds # ReaderIds
                   /\ read_idx[c_index'[t]] = SIZE_MAX
                   /\ \A u \in h_consumers \ {t} :
                         Subscribed(u) => c_index[u] # c_index'[t]
          /\ (c_pc[t] = "sub_unlock" /\ c_pc'[t] = "ready")
                => /\ read_idx[c_index[t]] # SIZE_MAX
                   /\ subscribe_lock' = FALSE
          /\ (c_pc[t] = "unsub_unlock" /\ c_pc'[t] = "start")
                => /\ read_idx[c_index[t]] = SIZE_MAX
                   /\ SubscribedIds # ReaderIds
                   /\ subscribe_lock' = FALSE]_vars

\* the third thread's subscribe() has thrown, threads 1 and 2 holding the two
\* reader slots, and has left the lock released
C8_Witness ==
    /\ c_pc[3] = "thrown"
    /\ Subscribed(1)
    /\ Subscribed(2)
    /\ SubscribedIds = ReaderIds
    /\ subscribe_lock = FALSE

\* the slots that hold a live object once write_idx is w
LiveSlots(w) == 0 .. ((IF w >= capacity THEN capacity ELSE w) - 1)

\* C9 (Spec): slot k holds a live object iff k < min(write_idx, capacity),
\* between try_emplace calls; try_emplace destroys the slot's object first
\* exactly if the slot holds one; every constructor call is matched by a live
\* object or a destructor call, so front and pop destroy nothing; and the
\* destructor leaves no live object, with as many destructor calls as
\* constructor calls.
C9_SlotLifetime ==
    /\ (q_state = "live" /\ p_pc # "store") => constructed = LiveSlots(write_idx)
    /\ (q_state = "live" /\ p_pc = "store") => constructed = LiveSlots(write_idx + 1)
    /\ p_pc = "construct" => (DestroysFirst <=> ProducerSlot \in constructed)
    /\ q_state = "live" => ctor_calls - dtor_calls = Cardinality(constructed)
    /\ q_state = "destroyed" => (constructed = {} /\ ctor_calls = dtor_calls)

\* the queue is destroyed after a run that wrapped the ring
C9_Witness ==
    /\ q_state = "destroyed"
    /\ write_idx = capacity + 1
    /\ ctor_calls = capacity + 1
    /\ dtor_calls = capacity + 1

\* C11 (SpecBatch): with the producer and the consumer thread both kept
\* running, the consumer subscribed or about to subscribe again, every emplace
\* returns: the producer gets all its items in, whatever the reader batch size
\* and wherever the consumer's subscription starts.
C11_ProducerLiveness ==
    (q_state = "live") ~> (write_idx = h_max_write)

\* with one batch as long as the ring, the producer's try_emplace has just been
\* refused at a ring that is full from the index, not a multiple of the batch,
\* at which the consumer's second subscription started
C11_Witness ==
    /\ items_per_batch_minus_one = capacity - 1
    /\ c_subs[1] = 2
    /\ p_pc = "idle"
    /\ p_result = "false"
    /\ read_idx[0] % capacity # 0
    /\ USub(write_idx, read_idx[0]) = capacity

\* C12 (SpecLate): a reader that subscribes while the producer runs, or after
\* its last item, reads the final item (value h_max_write - 1) at most once,
\* and once it has popped it front returns nullptr.
C12_LastItemOnceThenNull ==
    \A t \in h_consumers :
        /\ Cardinality({k \in 1 .. Len(consumed[t]) :
                           consumed[t][k] = h_max_write - 1}) <= 1
        /\ (SawLastItem(t) /\ c_pc[t] = "ready")
              => FrontItem(reader_cache[c_index[t]], write_idx) = NULL

\* SPBroadcastQueue::capacity()
Capacity == capacity

\* C13 (SpecCapacity): for every requested capacity 0 .. MaxRequested,
\* capacity() is a power of two, at least 16 and at least the requested
\* capacity, and half of it is below one of the two; and with one reader that
\* never pops, try_emplace accepts exactly capacity() items: it is refused only
\* at write_idx = capacity(), and there it is refused.
C13_CapacityRounding ==
    q_state = "live" =>
        /\ \E k \in 0 .. 30 : Capacity = 2 ^ k
        /\ Capacity >= 16
        /\ Capacity >= requested_capacity
        /\ (Capacity \div 2 < 16) \/ (Capacity \div 2 < requested_capacity)
        /\ write_idx <= Capacity
        /\ (p_pc = "idle" /\ p_result = "false") => write_idx = Capacity
        /\ (p_pc = "idle" /\ p_result = "true") => write_idx \in 1 .. Capacity
        /\ p_pc \in {"construct", "store"} => write_idx < Capacity

\* asked for 17, the queue has taken 32 items and refused the 33rd
C13_Witness ==
    /\ requested_capacity = 17
    /\ Capacity = 32
    /\ write_idx = 32
    /\ p_pc = "idle"
    /\ p_result = "false"
    /\ Cardinality(constructed) = 32

\* C14 (SpecLate): write_idx never decreases; it changes only in the step in
\* which try_emplace returns true, and then by exactly one; and a read_idx[i]
\* that holds an index before and after a step has not decreased.
C14_MonotonicIndices ==
    [][/\ write_idx' >= write_idx
       /\ (write_idx' # write_idx)
             => (p_pc = "store" /\ p_pc' = "idle" /\ p_result' = "true")
       /\ (p_pc = "store" /\ p_pc' = "idle") => write_idx' = write_idx + 1
       /\ \A i \in ReaderIds :
             (read_idx[i] # SIZE_MAX /\ read_idx'[i] # SIZE_MAX)
                 => read_idx'[i] >= read_idx[i]]_vars

\* the producer has wrapped the ring, reader 0 has published four batches and
\* reader 1 is subscribed
C14_Witness ==
    /\ write_idx = capacity + 1
    /\ read_idx[0] = capacity
    /\ read_idx[1] # SIZE_MAX
    /\ Subscribed(2)

\* read_idx[i] <= local_read_idx[i] <= write_idx for the reader slot of thread t
IndexOrdering(t) ==
    /\ read_idx[c_index[t]] <= LocalReadIdx(t)
    /\ LocalReadIdx(t) <= write_idx

\* C15 as stated (SpecLate): the ordering holds for a thread's reader slot from
\* the moment subscribe() has written reader_cache[i] until unsubscribe() has
\* written read_idx[i], the states between the two writes of each included.
C15_Original ==
    \A t \in h_consumers :
        c_pc[t] \in {"sub_store", "sub_unlock", "ready", "holding",
                     "unsub_reset", "unsub_store"} => IndexOrdering(t)

\* C15 as amended (SpecLate): the ordering holds from subscribe()'s store of
\* read_idx[i] until unsubscribe()'s reset of reader_cache[i].  Between
\* subscribe()'s two writes read_idx[i] is still the sentinel, above
\* local_read_idx[i] <= write_idx; between unsubscribe()'s two writes
\* local_read_idx[i] is the sentinel, above write_idx >= read_idx[i].
C15_IndexOrdering ==
    \A t \in h_consumers :
        /\ c_pc[t] \in {"sub_unlock", "ready", "holding", "unsub_reset"}
              => IndexOrdering(t)
        /\ c_pc[t] = "sub_store"
              => /\ read_idx[c_index[t]] = SIZE_MAX
                 /\ LocalReadIdx(t) <= write_idx
        /\ c_pc[t] = "unsub_store"
              => /\ LocalReadIdx(t) = SIZE_MAX
                 /\ read_idx[c_index[t]] <= write_idx

\* the late subscriber, started at an index that is no multiple of the batch,
\* is ahead of what it has published and behind the producer
C15_Witness ==
    /\ Subscribed(2)
    /\ read_idx[c_index[2]] % (items_per_batch_minus_one + 1) # 0
    /\ read_idx[c_index[2]] < LocalReadIdx(2)
    /\ LocalReadIdx(2) < write_idx

\* the batch length: the items a reader pops between two publications
BatchLength == items_per_batch_minus_one + 1

\* C16 (SpecBatch): a pop adds one to local_read_idx; it stores the new value in
\* the reader's read_idx exactly if that value is a multiple of the batch length
\* and otherwise leaves read_idx as it was; so a subscribed reader is never more
\* than one batch length ahead of its read_idx, wherever its subscription began.
C16_BatchedPublication ==
    /\ [][\A t \in h_consumers :
             (c_pc[t] = "holding" /\ c_pc'[t] = "ready")
                 => /\ reader_cache'[c_index[t]].read_local_idx = LocalReadIdx(t) + 1
                    /\ read_idx' =
                          IF reader_cache'[c_index[t]].read_local_idx % BatchLength = 0
                          THEN [read_idx EXCEPT ![c_index[t]] =
                                                   reader_cache'[c_index[t]].read_local_idx]
                          ELSE read_idx]_vars
    /\ [](\A t \in h_consumers :
             Subscribed(t) =>
                 /\ read_idx[c_index[t]] <= LocalReadIdx(t)
                 /\ LocalReadIdx(t) - read_idx[c_index[t]] <= BatchLength)

\* with batches of 8 the consumer, subscribed again at index 1, has popped six
\* items and published none
C16_Witness ==
    /\ BatchLength = 8
    /\ c_subs[1] = 2
    /\ Subscribed(1)
    /\ read_idx[c_index[1]] = 1
    /\ LocalReadIdx(1) = 7

\* the step is a front of thread t: the thread stays a subscribed reader, it
\* consumes nothing (a pop does), and its pointer or its cache changes
FrontStep(t) ==
    /\ c_pc[t] \in {"ready", "holding"}
    /\ c_pc'[t] \in {"ready", "holding"}
    /\ consumed'[t] = consumed[t]
    /\ << c_pc[t], c_item[t], reader_cache[c_index[t]] >>
          # << c_pc'[t], c_item'[t], reader_cache'[c_index[t]] >>

\* C17 (SpecLate): a front of reader id changes nothing of the queue but
\* write_idx_cache of id: not write_idx, a read_idx, a local_read_idx, a slot,
\* the live objects or another reader's cache; and while a reader holds a pointer front gave it, a
\* further front returns that pointer, whatever the producer and the other
\* readers have done since.
C17_FrontIdempotent ==
    /\ [][\A t \in h_consumers :
             FrontStep(t)
                 => /\ UNCHANGED << write_idx, read_idx, min_read_idx_cache,
                                    slot_vars, subscribe_lock >>
                    /\ \A j \in ReaderIds \ {c_index[t]} :
                          reader_cache'[j] = reader_cache[j]
                    /\ reader_cache'[c_index[t]].read_local_idx = LocalReadIdx(t)
                    /\ c_pc[t] = "holding" => c_item'[t] = c_item[t]]_vars
    /\ [](\A t \in h_consumers :
             c_pc[t] = "holding"
                 => FrontItem(reader_cache[c_index[t]], write_idx) = c_item[t])

\* the late subscriber holds a pointer while the producer has emplaced items
\* its cache does not know of and the other reader has popped
C17_Witness ==
    /\ c_pc[2] = "holding"
    /\ reader_cache[c_index[2]].write_idx_cache < write_idx
    /\ c_item[2] = LocalReadIdx(2) % capacity
    /\ LocalReadIdx(1) > LocalReadIdx(2)

\* the threads between the exchange that took subscribe_lock and the store
\* that releases it
LockHolders == {t \in h_consumers : InCall(t)}

\* C18 (SpecRegistry): at most one thread is between acquiring and releasing
\* subscribe_lock, and the lock is set exactly while one is; subscribe() takes
\* and returns the lowest reader slot whose read_idx holds the sentinel; and no
\* two subscribed threads have the same reader id, in any interleaving of
\* three threads' subscribe and unsubscribe calls with the producer.
C18_RegistryMutualExclusion ==
    /\ [](/\ Cardinality(LockHolders) <= 1
           /\ subscribe_lock <=> LockHolders # {}
           /\ \A t, u \in h_consumers :
                 (t # u /\ Subscribed(t) /\ Subscribed(u)) => c_index[t] # c_index[u])
    /\ [][\A t \in h_consumers :
             /\ (c_pc[t] = "sub_find" /\ c_pc'[t] = "sub_load")
                   => /\ read_idx[c_index'[t]] = SIZE_MAX
                      /\ \A j \in ReaderIds : j < c_index'[t] => read_idx[j] # SIZE_MAX
             /\ (c_pc[t] = "sub_unlock" /\ c_pc'[t] = "ready")
                   => /\ read_idx[c_index[t]] # SIZE_MAX
                      /\ \A j \in ReaderIds : j < c_index[t] => read_idx[j] # SIZE_MAX]_vars

\* thread 1 has unsubscribed from slot 0 while thread 2 kept slot 1; thread 3,
\* which contended for the lock, was given the freed slot 0 and not slot 1
C18_Witness ==
    /\ c_pc[1] = "start" /\ c_subs[1] = 1
    /\ Subscribed(2) /\ c_index[2] = 1
    /\ Subscribed(3) /\ c_index[3] = 0
    /\ SubscribedIds = ReaderIds

\* the step is one of try_emplace's tests: the load of _write_idx with the
\* first test, or a turn of the scan with the second, short of the placement new
RefusalPathStep ==
    /\ p_pc \in {"idle", "scan"}
    /\ p_pc' \in {"idle", "scan"}
    /\ << p_pc, p_i >> # << p_pc', p_i' >>

\* C19 (Spec): the steps of a try_emplace up to its return of false change
\* nothing but min_read_idx_cache and the producer's locals: write_idx, the
\* slots, the live objects, the constructor and destructor counts, every
\* read_idx and reader cache and what front returns to each reader stay as
\* they were; and a try_emplace that succeeds, after a refusal or not, writes
\* item number write_idx to slot write_idx & (capacity - 1) and adds one to
\* write_idx.
C19_RefusalChangesNothing ==
    [][/\ RefusalPathStep
             => /\ UNCHANGED << q_state, write_idx, slot_vars, read_idx, reader_cache,
                                subscribe_lock, consumer_vars >>
                /\ \A i \in ReaderIds :
                      FrontItem(reader_cache'[i], write_idx')
                          = FrontItem(reader_cache[i], write_idx)
       /\ (p_pc = "scan" /\ p_pc' = "idle")
             => /\ p_result' = "false"
                /\ p_write_idx = write_idx
       /\ (p_pc = "store" /\ p_pc' = "idle")
             => /\ write_idx' = write_idx + 1
                /\ slots'[BitAnd(write_idx, capacity_minus_one)] = write_idx
                /\ BitAnd(write_idx, capacity_minus_one) \in constructed'
                /\ p_result' = "true"]_vars

\* the producer was refused at a full ring, a reader then published a batch of
\* pops, and the retry has passed the test and written item number capacity
C19_Witness ==
    /\ p_result = "false"
    /\ p_pc = "store"
    /\ p_write_idx = capacity
    /\ write_idx = capacity
    /\ slots[0] = capacity

\* what try_emplace's scan computes from the read_idx array as it is now
ScanMin ==
    CHOOSE m \in {read_idx[i] : i \in ReaderIds} : \A i \in ReaderIds : m <= read_idx[i]

\* a try_emplace called in this state returns false: both of its tests say full
WouldRefuse ==
    /\ IsFull(write_idx, min_read_idx_cache)
    /\ IsFull(write_idx, ScanMin)

\* read_idx[id] after the reader has popped from local up to w
RECURSIVE DrainedReadIdx(_, _, _)
DrainedReadIdx(local, published, w) ==
    IF local = w THEN published
    ELSE DrainedReadIdx(UAdd(local, 1),
                        IF PopPublishes(UAdd(local, 1)) THEN UAdd(local, 1) ELSE published,
                        w)

\* every published read_idx is that of a thread that has returned from
\* subscribe() and not called unsubscribe(), and there is one
ReadersSettled ==
    /\ SubscribedIds # {}
    /\ \A i \in SubscribedIds : \E t \in h_consumers : Subscribed(t) /\ c_index[t] = i

\* C20 (SpecBatch): in no reachable state with a subscribed reader would
\* try_emplace return false while front returns null to every subscribed
\* reader: each reader whose read_idx is the least has an unread item, and
\* popping up to write_idx makes it publish a read_idx less than capacity
\* behind write_idx, with which try_emplace's test passes; for every batch
\* length the constructor accepts and every index a subscription can start at.
C20_NoDeadlockFromBatching ==
    (ReadersSettled /\ WouldRefuse)
        => \A t \in h_consumers :
              (Subscribed(t) /\ read_idx[c_index[t]] = ScanMin)
                  => /\ FrontItem(reader_cache[c_index[t]], write_idx) # NULL
                     /\ ~IsFull(write_idx,
                                DrainedReadIdx(LocalReadIdx(t), read_idx[c_index[t]],
                                               write_idx))

\* the batch is the whole ring and the subscription began at index 1: the
\* reader has popped 14 items and published none, the producer has filled the
\* ring up to index 17 and been refused
C20_Witness ==
    /\ BatchLength = capacity
    /\ Subscribed(1)
    /\ read_idx[c_index[1]] = 1
    /\ LocalReadIdx(1) = 15
    /\ write_idx = 17
    /\ WouldRefuse
    /\ p_pc = "idle"
    /\ p_result = "false"

=============================================================================
